---- MODULE Spec2Model ----
(***************************************************************************)
(* Model of the pump.fun multi-wallet bot: one run of main() in            *)
(* src/src/index.ts, i.e. PumpFunMultiWalletBot.initialize followed by     *)
(* PumpFunMultiWalletBot.execute, with the SynchronizationEngine           *)
(* (src/src/core/SynchronizationEngine.ts) and the BlockMonitor            *)
(* (src/unnamed/part_007, imported as ./core/BlockMonitor).                *)
(*                                                                         *)
(* The program runs on a single-threaded event loop.  Every await on       *)
(* network I/O or on a timer is a suspension point and is a value of pc;   *)
(* the code between two suspension points runs atomically and is one       *)
(* action.  The environment is the ledger: its slot advances (and every    *)
(* registered slot-change listener is called), RPC requests are answered   *)
(* later with a value or an error, and sends are accepted or rejected.     *)
(***************************************************************************)
EXTENDS Integers, Sequences, FiniteSets

\* ---------------------------------------------------------------- bounds
\* The number of wallets in the wallet file (config.wallet.count).
MaxWallets == 3
\* The ledger's slot runs over 0..MaxSlot.
MaxSlot == 3
\* SpecVerify: the ledger slot at which the cycle under verification sent.
FirstSendSlot == 1000
\* SpecVerdict: the largest number of hashes handed to verifyBlockInclusion.
MaxHashes == 4
\* SpecVerifyTwice: the largest number of verifyBlockInclusion calls made.
MaxVerifyCalls == 2
\* SpecPoll: the largest blockCount given to waitForBlocks.
MaxBlocks == 2
\* SpecPoll: checkSlot timers scheduled after a rejection are counted up to
\* this number.
MaxPolls == 2
\* SpecCleanup: the largest number of cleanup() calls made.
MaxCleanupCalls == 4

\* ------------------------------------------------------ program constants
\* const poolSize = 3 in createConnectionPool.
PoolSize == 3
\* const batchSize = 2 in executeSimultaneously.
BatchSize == 2
\* targetSlot = startSlot + 1 in executeSimultaneously.
TargetOffset == 1
\* slot: null of an unconfirmed record; also "no slot read yet".
NoSlot == -1

Wallets == 1..MaxWallets

VARIABLES
  pc,            \* where main() is suspended
  initResult,    \* what bot.initialize() returned: "none", "true", "false"
  err,           \* the error main() caught: "none" or its kind
  ledgerSlot,    \* the ledger's slot
  rpcLo,         \* the ledger slot when the pending RPC request was issued
  ready,         \* WalletManager: getReadyWalletCount()
  isReady,       \* WalletManager: the wallets (by position in the file) with isReady
  prepared,      \* number of transactions prepareTransactions returned
  transactions,  \* the Transaction objects of the cycle, in index order
  executeCalled, \* bot.execute() has been entered
  currentSlot,   \* SynchronizationEngine.currentSlot
  slotSubscription,   \* SynchronizationEngine.slotSubscription !== null
  connectionPool,     \* SynchronizationEngine.connectionPool: its connections, in order
  bmCurrentSlot,      \* BlockMonitor.currentSlot
  bmSlotSubscription, \* BlockMonitor.slotSubscription !== null
  startSlot,     \* executeSimultaneously: startSlot
  targetSlot,    \* executeSimultaneously: targetSlot
  edgeTimer,     \* waitForSlotEdge: the timeout timer is armed
  edgeListener,  \* waitForSlotEdge: slotChangeHandler is subscribed
  edge,          \* waitForSlotEdge's promise: "none", "pending", "resolved", "rejected"
  blockhash,     \* the blockhash fetched (named by the slot it was read at)
  outcome,       \* per transaction: "none", "pending", "ok", "rejected"
  sendCount,     \* per transaction: calls of sendRawTransaction
  batchI,        \* executeSimultaneously: the dispatch loop's i (0-based)
  dispatchSlot,  \* the ledger slot when the first send was issued
  signFailed,    \* the wallets whose signTransaction threw
  result,        \* executeSimultaneously's ExecutionResult
  vCurrentSlot,  \* verifyBlockInclusion: const currentSlot
  verification,  \* verifyBlockInclusion's VerificationResult
  report,        \* what generateReport printed
  pollTarget,    \* waitForSlot / waitForBlocks: targetSlot
  pollTimer,     \* the wait whose checkSlot timer is scheduled, or "none"
  pollTimeout,   \* waitForSlot / waitForBlocks: the timeout timer is armed
  poll,          \* their promise: "none", "pending", "resolved", "rejected"
  hist           \* observations of the run (not program state)

vars == << pc, initResult, err, ledgerSlot, rpcLo, ready, isReady, prepared,
           transactions, executeCalled,
           currentSlot, slotSubscription, connectionPool, bmCurrentSlot,
           bmSlotSubscription, startSlot, targetSlot, edgeTimer, edgeListener, edge,
           blockhash, outcome, sendCount, batchI, dispatchSlot, signFailed, result,
           vCurrentSlot, verification, report, pollTarget, pollTimer,
           pollTimeout, poll, hist >>

walletVars == << ready, isReady, prepared, transactions >>
engineVars == << currentSlot, slotSubscription, connectionPool >>
bmVars == << bmCurrentSlot, bmSlotSubscription >>
edgeVars == << startSlot, targetSlot, edgeTimer, edgeListener, edge >>
sendVars == << blockhash, outcome, sendCount, batchI, dispatchSlot, result >>
verifyVars == << vCurrentSlot, verification, report >>
pollVars == << pollTarget, pollTimer, pollTimeout, poll >>

\* ------------------------------------------------------------ helpers
Max(a, b) == IF a >= b THEN a ELSE b

SetMin(S) == CHOOSE x \in S : \A y \in S : x <= y

SetMax(S) == CHOOSE x \in S : \A y \in S : x >= y

\* [...set].sort((a, b) => a - b): the elements of S in ascending order.
RECURSIVE SortedSeq(_)
SortedSeq(S) == IF S = {} THEN << >>
                ELSE << SetMin(S) >> \o SortedSeq(S \ {SetMin(S)})

\* seq.filter(pred) for a sequence of indices 1..n kept in order.
RECURSIVE FilterIdx(_, _)
FilterIdx(n, keep) ==
  IF n = 0 THEN << >>
  ELSE IF n \in keep THEN Append(FilterIdx(n - 1, keep), n)
       ELSE FilterIdx(n - 1, keep)

\* The value a pending getSlot / getLatestBlockhash may answer with: the
\* ledger's slot at some moment between the request and the response.
RpcValues == rpcLo..ledgerSlot

NoResult == [valid |-> FALSE, transactionHashes |-> << >>, failedWallets |-> << >>,
             blockHeight |-> NoSlot, success |-> FALSE]

NaN == [nan |-> TRUE, num |-> 0, den |-> 0]

NoVerification == [valid |-> FALSE, allInSameBlock |-> FALSE, blockHeight |-> NoSlot,
                   transactionCount |-> 0, successRate |-> NaN,
                   transactionHashes |-> << >>]

NoReport == [printed |-> FALSE, successRate |-> NaN, blockHeight |-> NoSlot,
             allInSameBlock |-> FALSE, txCount |-> 0]

\* maxObserved: the largest slot the engine has seen (a getSlot answer it
\* received or a slot-change notification); waitObserved: the largest slot
\* waitForSlotEdge has tested (the cached slot when called, then the slot of
\* each notification its handler received); the counters count calls, and
\* engineRemoved / bmRemoved count the removals of the two slot listeners.
\* Of the running verifyBlockInclusion: sleepDone, its 5 second sleep has
\* ended; queryCount, the getTransaction calls made per hash; answers, what
\* each of them answered.  landed: per hash, the slot the ledger has shown
\* it in (the ledger does not take a confirmed transaction back);
\* firstConfirmed: the hashes the previous report held as confirmed.
\* sentVia: per transaction, the connection its send was made on (0: none).
\* executionTimePassed: the wall clock has reached the executionTime that
\* calculateOptimalTiming returned.
\* rescheduled: the checkSlot timers scheduled after the wait was rejected.
InitHist == [maxObserved |-> 0, waitObserved |-> NoSlot, timedOut |-> FALSE,
             edgeCalls |-> 0,
             blockhashCalls |-> 0, verifyCalls |-> 0, queries |-> 0,
             cleanupCalls |-> 0, engineRemoved |-> 0, bmRemoved |-> 0,
             sleepDone |-> FALSE, queryCount |-> << >>, answers |-> << >>,
             landed |-> << >>, firstConfirmed |-> {},
             sentVia |-> [k \in Wallets |-> 0], executionTimePassed |-> FALSE,
             rescheduled |-> 0]

Init ==
  /\ pc = "start"
  /\ initResult = "none"
  /\ err = "none"
  /\ ledgerSlot = 0
  /\ rpcLo = 0
  /\ ready = 0
  /\ isReady = {}
  /\ prepared = 0
  /\ transactions = << >>
  /\ executeCalled = FALSE
  /\ currentSlot = 0
  /\ slotSubscription = FALSE
  /\ connectionPool = << >>
  /\ bmCurrentSlot = 0
  /\ bmSlotSubscription = FALSE
  /\ startSlot = NoSlot
  /\ targetSlot = NoSlot
  /\ edgeTimer = FALSE
  /\ edgeListener = FALSE
  /\ edge = "none"
  /\ pollTarget = NoSlot
  /\ pollTimer = "none"
  /\ pollTimeout = FALSE
  /\ poll = "none"
  /\ blockhash = NoSlot
  /\ outcome = [i \in Wallets |-> "none"]
  /\ sendCount = [i \in Wallets |-> 0]
  /\ batchI = 0
  /\ dispatchSlot = NoSlot
  /\ signFailed = {}
  /\ result = NoResult
  /\ vCurrentSlot = NoSlot
  /\ verification = NoVerification
  /\ report = NoReport
  /\ hist = InitHist

\* ------------------------------------------------------- WalletManager
\* getReadyWallets(): wallets.filter(w => w.isReady), in the file's order.
getReadyWallets(S) == FilterIdx(MaxWallets, S)

\* getReadyWalletCount(): wallets.filter(w => w.isReady).length
getReadyWalletCount(S) == Len(getReadyWallets(S))

\* --------------------------------------------------- TransactionBuilder
\* No wallet: a transaction nobody has signed yet.
NoWallet == 0

\* transaction.recentBlockhash = '11111111111111111111111111111111'
PlaceholderBlockhash == -2

\* createPumpFunTransaction(wallet): the fee payer is the wallet, the
\* blockhash is the placeholder, and there is no signature.
createPumpFunTransaction(w) ==
  [feePayer |-> w, recentBlockhash |-> PlaceholderBlockhash, signer |-> NoWallet,
   signedBlockhash |-> NoSlot]

\* prepareTransactions(wallets): one transaction per wallet, pushed in the
\* order of the wallets.
prepareTransactions(ws) == [k \in 1..Len(ws) |-> createPumpFunTransaction(ws[k])]

\* An update that leaves the transaction's blockhash as it was.
updateTransactionBlockhash_Kept(tx, bh) == tx

\* updateTransactionBlockhash(transaction, recentBlockhash)
updateTransactionBlockhash(tx, bh) == [tx EXCEPT !.recentBlockhash = bh]

\* signTransaction(transaction, wallet): transaction.sign with the wallet's
\* key; the signature covers the message as it is now, blockhash included.
signTransaction(tx, w) == [tx EXCEPT !.signer = w, !.signedBlockhash = tx.recentBlockhash]

\* The wallet after the one at the transaction's index.
WalletAtIndex_Next(rw, index) == rw[(index % Len(rw)) + 1]

\* const wallet = readyWallets[index] in executeSimultaneously.
WalletAtIndex(rw, index) == rw[index]

\* --------------------------------------------------- bot.initialize()
\* A step of initialize() threw: its catch logs and returns false.
InitializeFails ==
  /\ initResult' = "false"
  /\ pc' = "afterInit"

\* validateConfig(), then walletManager.initialize() is entered.
ValidateConfig ==
  /\ pc = "start"
  /\ \/ pc' = "walletInit" /\ UNCHANGED initResult
     \/ InitializeFails
  /\ UNCHANGED << err, ledgerSlot, rpcLo, walletVars, executeCalled, currentSlot,
                  slotSubscription, connectionPool, bmCurrentSlot, bmSlotSubscription,
                  startSlot, targetSlot, edgeTimer, edgeListener, edge, blockhash,
                  outcome, sendCount, batchI, dispatchSlot, signFailed, result, vCurrentSlot,
                  verification, report, hist, pollVars >>

\* walletManager.initialize(): wallets are loaded or generated with
\* isReady = false and verifyBalances marks n of them ready; loading or
\* saving may throw before any wallet is ready.
WalletInitialize ==
  /\ pc = "walletInit"
  /\ \/ \E S \in SUBSET Wallets :
          /\ isReady' = S
          /\ ready' = getReadyWalletCount(S)
          /\ pc' = IF S = {} THEN "fund" ELSE "engineInit"
          /\ UNCHANGED initResult
     \/ InitializeFails /\ UNCHANGED << ready, isReady >>
  /\ UNCHANGED << err, ledgerSlot, rpcLo, prepared, transactions, executeCalled,
                  currentSlot,
                  slotSubscription, connectionPool, bmCurrentSlot, bmSlotSubscription,
                  startSlot, targetSlot, edgeTimer, edgeListener, edge, blockhash,
                  outcome, sendCount, batchI, dispatchSlot, signFailed, result, vCurrentSlot,
                  verification, report, hist, pollVars >>

\* No wallet is ready: on testnet/devnet fundWallets() runs and either throws
\* (before it funds anything) or ends with verifyBalances marking n wallets
\* ready; on another network the step is skipped.
FundWallets ==
  /\ pc = "fund"
  /\ \/ \E S \in SUBSET Wallets :
          /\ isReady' = S
          /\ ready' = getReadyWalletCount(S)
          /\ pc' = "engineInit"
          /\ UNCHANGED initResult
     \/ InitializeFails /\ UNCHANGED << ready, isReady >>
  /\ UNCHANGED << err, ledgerSlot, rpcLo, prepared, transactions, executeCalled,
                  currentSlot,
                  slotSubscription, connectionPool, bmCurrentSlot, bmSlotSubscription,
                  startSlot, targetSlot, edgeTimer, edgeListener, edge, blockhash,
                  outcome, sendCount, batchI, dispatchSlot, signFailed, result, vCurrentSlot,
                  verification, report, hist, pollVars >>

\* createConnectionPool(): the pool as it is after the loop.
createConnectionPool == [i \in 1..PoolSize |-> i]

\* synchronizationEngine.initialize() up to the await of getSlot in
\* startSlotMonitoring: the pool is created, the latency is measured
\* (failures are caught there, and only syncConfig.networkLatency is set),
\* the slot-change listener is subscribed and getSlot is requested.
EngineInitialize ==
  /\ pc = "engineInit"
  /\ connectionPool' = createConnectionPool
  /\ slotSubscription' = TRUE
  /\ rpcLo' = ledgerSlot
  /\ pc' = "engineGetSlot"
  /\ UNCHANGED << initResult, err, ledgerSlot, walletVars, executeCalled,
                  currentSlot, bmCurrentSlot, bmSlotSubscription,
                  startSlot, targetSlot, edgeTimer, edgeListener, edge, blockhash,
                  outcome, sendCount, batchI, dispatchSlot, signFailed, result, vCurrentSlot,
                  verification, report, hist, pollVars >>

\* this.currentSlot = await this.connection.getSlot() in startSlotMonitoring.
InitialSlotWrite(v) == v

\* The answer to the initial getSlot arrives, or the request fails.  On
\* success blockMonitor.initialize() is entered and requests its getSlot.
StartSlotMonitoringResponse ==
  /\ pc = "engineGetSlot"
  /\ \/ \E v \in RpcValues :
          /\ currentSlot' = InitialSlotWrite(v)
          /\ hist' = [hist EXCEPT !.maxObserved = Max(@, v)]
          /\ rpcLo' = ledgerSlot
          /\ pc' = "bmGetSlot"
          /\ UNCHANGED initResult
     \/ InitializeFails /\ UNCHANGED << currentSlot, hist, rpcLo >>
  /\ UNCHANGED << err, ledgerSlot, walletVars, executeCalled,
                  slotSubscription, connectionPool, bmCurrentSlot, bmSlotSubscription,
                  startSlot, targetSlot, edgeTimer, edgeListener, edge, blockhash,
                  outcome, sendCount, batchI, dispatchSlot, signFailed, result, vCurrentSlot,
                  verification, report, pollVars >>

\* BlockMonitor.initialize(): the answer to getSlot is stored, then the
\* listener is subscribed; a failed getSlot is rethrown.
BlockMonitorInitialize ==
  /\ pc = "bmGetSlot"
  /\ \/ \E v \in RpcValues :
          /\ bmCurrentSlot' = v
          /\ bmSlotSubscription' = TRUE
          /\ initResult' = "true"
          /\ pc' = "afterInit"
     \/ InitializeFails /\ UNCHANGED << bmCurrentSlot, bmSlotSubscription >>
  /\ UNCHANGED << err, ledgerSlot, rpcLo, walletVars, executeCalled, currentSlot,
                  slotSubscription, connectionPool,
                  startSlot, targetSlot, edgeTimer, edgeListener, edge, blockhash,
                  outcome, sendCount, batchI, dispatchSlot, signFailed, result, vCurrentSlot,
                  verification, report, hist, pollVars >>

\* ------------------------------------------------ pure parts of the code
\* (a / b) * 100 as the code computes it: NaN when both are 0, else the
\* rational num/den.
Percent(a, b) == IF b = 0 THEN NaN ELSE [nan |-> FALSE, num |-> a * 100, den |-> b]

\* results.filter(r => r.success).map(r => ({wallet, hash})): the accepted
\* sends, in index order.
successfulTxs(n, out) == FilterIdx(n, {i \in 1..n : out[i] = "ok"})

\* results.filter(r => !r.success).map(r => r.wallet)
failedTxs(n, out) == FilterIdx(n, {i \in 1..n : out[i] # "ok"})

\* The ExecutionResult executeSimultaneously builds from the n settled sends.
ExecutionResult(n, out, cur) ==
  [valid |-> TRUE,
   transactionHashes |-> successfulTxs(n, out),
   failedWallets |-> failedTxs(n, out),
   blockHeight |-> cur,
   success |-> Len(successfulTxs(n, out)) > 0]

\* execute() handing every outcome, accepted or not, to the verifier.
VerifyArgument_AllOutcomes(res) == res.transactionHashes \o res.failedWallets

\* What execute() hands to verifyBlockInclusion.
VerifyArgument(res) == res.transactionHashes

\* The answers of connection.getTransaction.
QInfo(s) == [kind |-> "info", slot |-> s]
QNull == [kind |-> "null", slot |-> NoSlot]
QThrow == [kind |-> "throw", slot |-> NoSlot]

\* A record builder without the test of what the query returned.
TransactionResult_Untested(h, q) ==
  IF q.kind = "throw" THEN [wallet |-> h, confirmed |-> FALSE, slot |-> NoSlot]
  ELSE [wallet |-> h, confirmed |-> TRUE, slot |-> q.slot]

\* The record verifyBlockInclusion builds for one hash from its query.
TransactionResult(h, q) ==
  IF q.kind = "info" THEN [wallet |-> h, confirmed |-> TRUE, slot |-> q.slot]
  ELSE IF q.kind = "null" THEN [wallet |-> h, confirmed |-> FALSE, slot |-> NoSlot]
  ELSE [wallet |-> h, confirmed |-> FALSE, slot |-> NoSlot]

transactionResults(hashes, q) ==
  [k \in 1..Len(hashes) |-> TransactionResult(hashes[k], q[k])]

IsConfirmed(r) == r.confirmed

confirmedTxs(rs) == SelectSeq(rs, IsConfirmed)

\* [...new Set(slots)].sort(...), slots being the non-null slots of the
\* confirmed records.
uniqueSlots(rs) ==
  SortedSeq({rs[k].slot : k \in {j \in 1..Len(rs) : rs[j].confirmed /\ rs[j].slot # NoSlot}})

\* The lenient test with a spread of three slots allowed.
allInSameBlock_SpreadThree(u) ==
  \/ Len(u) = 1
  \/ /\ Len(u) <= 3
     /\ Len(u) > 0
     /\ u[Len(u)] - u[1] <= 3

\* The strict test alone: uniqueSlots.length === 1.
allInSameBlock_Strict(u) == Len(u) = 1

\* uniqueSlots.length === 1 || (uniqueSlots.length <= 3 && last - first <= 2).
\* With no slot, last - first is undefined - undefined = NaN and NaN <= 2 is
\* false.
allInSameBlock(u) ==
  \/ Len(u) = 1
  \/ /\ Len(u) <= 3
     /\ Len(u) > 0
     /\ u[Len(u)] - u[1] <= 2

\* allInSameBlock ? uniqueSlots[0] : currentSlot, then blockHeight || currentSlot
\* (0 is falsy).
blockHeight(u, cur) ==
  LET bh == IF allInSameBlock(u) THEN u[1] ELSE cur
  IN IF bh # 0 THEN bh ELSE cur

\* The VerificationResult of verifyBlockInclusion(hashes) when getSlot
\* answered cur and the getTransaction queries answered q.
VerificationResult(hashes, q, cur) ==
  LET rs == transactionResults(hashes, q)
      u == uniqueSlots(rs)
  IN [valid |-> TRUE,
      allInSameBlock |-> allInSameBlock(u),
      blockHeight |-> blockHeight(u, cur),
      transactionCount |-> Len(confirmedTxs(rs)),
      successRate |-> Percent(Len(confirmedTxs(rs)), Len(hashes)),
      transactionHashes |-> rs]

\* generateReport(verification): what is printed.
generateReport(v) ==
  LET txCount == Len(v.transactionHashes)
  IN [printed |-> TRUE,
      successRate |-> IF ~v.successRate.nan THEN v.successRate
                      ELSE IF txCount = 0 THEN Percent(0, 1) ELSE v.successRate,
      blockHeight |-> v.blockHeight,
      allInSameBlock |-> v.allInSameBlock,
      txCount |-> txCount]

\* ----------------------------------------------------- bot.execute()
\* An error thrown inside execute(): each catch on the way (in
\* executeSimultaneously or verifyBlockInclusion, then in execute) logs and
\* rethrows, and main()'s catch calls process.exit(1).
Throw(kind) ==
  /\ pc' = "exit1"
  /\ err' = kind

\* signTransaction for every transaction of the batch inside Promise.all:
\* bad is the set of wallets whose transaction.sign throws.
SignOutcomes(n) == SUBSET (1..n)

\* The pre-signing Promise.all of executeSimultaneously: transaction k is
\* signed with the key of readyWallets[k]; bad are those whose signing throws.
PreSign(txs, rw, bad) ==
  [k \in 1..Len(txs) |-> IF k \in bad THEN txs[k]
                         ELSE signTransaction(txs[k], WalletAtIndex(rw, k))]

\* The second Promise.all: every transaction gets the fresh blockhash and is
\* signed again with the key of readyWallets[k].
Finalize(txs, rw, bh, bad) ==
  [k \in 1..Len(txs) |->
     IF k \in bad THEN updateTransactionBlockhash(txs[k], bh)
     ELSE signTransaction(updateTransactionBlockhash(txs[k], bh), WalletAtIndex(rw, k))]

\* main() after `await bot.initialize()`: the returned boolean is not read
\* and bot.execute() is called.  execute() throws when no wallet is ready;
\* otherwise one transaction per ready wallet is prepared (or
\* prepareTransactions throws) and calculateOptimalTiming requests getSlot.
MainCallsExecute ==
  /\ pc = "afterInit"
  /\ executeCalled' = TRUE
  /\ IF ready = 0
     THEN Throw("NoReadyWallets") /\ UNCHANGED << prepared, transactions, rpcLo >>
     ELSE \/ /\ transactions' = prepareTransactions(getReadyWallets(isReady))
             /\ prepared' = Len(transactions')
             /\ rpcLo' = ledgerSlot
             /\ pc' = "timing"
             /\ UNCHANGED err
          \/ Throw("PrepareError") /\ UNCHANGED << prepared, transactions, rpcLo >>
  /\ UNCHANGED << initResult, ledgerSlot, ready, isReady, engineVars, bmVars, edgeVars,
                  sendVars, signFailed, verifyVars, hist, pollVars >>

\* calculateOptimalTiming's getSlot is answered (the value is only logged)
\* or fails.  On success executeSimultaneously starts: every transaction is
\* pre-signed inside one Promise.all, which rejects if any signing throws,
\* and then getSlot is requested for startSlot.
CalculateOptimalTimingResponse ==
  /\ pc = "timing"
  /\ \/ \E bad \in SignOutcomes(prepared) :
          /\ signFailed' = bad
          /\ transactions' = PreSign(transactions, getReadyWallets(isReady), bad)
          /\ IF bad # {}
             THEN Throw("SigningError") /\ UNCHANGED rpcLo
             ELSE /\ rpcLo' = ledgerSlot
                  /\ pc' = "startSlot"
                  /\ UNCHANGED err
     \/ Throw("RpcError") /\ UNCHANGED << signFailed, transactions, rpcLo, pollVars >>
  /\ UNCHANGED << initResult, ledgerSlot, ready, isReady, prepared, executeCalled,
                  engineVars, bmVars, edgeVars, sendVars, verifyVars, hist, pollVars >>

\* const targetSlot = startSlot + 1
TargetSlot(s) == s + TargetOffset

\* A test that is satisfied one slot before the target.
EdgeReached_OneEarly(slot, target) == slot >= target - 1

\* The test of waitForSlotEdge, on the cached current slot when it is called
\* and on the slot of every notification: slot >= targetSlot.
EdgeReached(slot, target) == slot >= target

\* The continuation of `await this.waitForSlotEdge(targetSlot)` once the
\* promise has settled: resolved, getLatestBlockhash is requested; rejected,
\* the error is thrown.
AwaitSlotEdge(settled, now) ==
  /\ edge' = settled
  /\ IF settled = "resolved"
     THEN /\ rpcLo' = now
          /\ pc' = "blockhash"
          /\ UNCHANGED err
     ELSE /\ Throw("TimeoutError")
          /\ UNCHANGED rpcLo

\* A wait that sets no timeout.
EdgeTimerArmed_Never == FALSE

\* const timeout = setTimeout(..., 10000) in waitForSlotEdge.
EdgeTimerArmed == TRUE

\* The answer to executeSimultaneously's getSlot arrives (or the request
\* fails).  targetSlot is chosen and waitForSlotEdge(targetSlot) runs its
\* executor: it arms the timeout, subscribes slotChangeHandler and, if the
\* cached current slot is already at the target, clears the timeout, removes
\* the listener and resolves.
StartSlotResponse ==
  /\ pc = "startSlot"
  /\ \/ \E v \in RpcValues :
          /\ startSlot' = v
          /\ targetSlot' = TargetSlot(v)
          /\ hist' = [hist EXCEPT !.maxObserved = Max(@, v), !.edgeCalls = @ + 1,
                                  !.waitObserved = currentSlot,
                                  !.blockhashCalls =
                                     IF EdgeReached(currentSlot, TargetSlot(v)) THEN @ + 1 ELSE @]
          /\ IF EdgeReached(currentSlot, TargetSlot(v))
             THEN /\ edgeTimer' = FALSE
                  /\ edgeListener' = FALSE
                  /\ AwaitSlotEdge("resolved", ledgerSlot)
             ELSE /\ edgeTimer' = EdgeTimerArmed
                  /\ edgeListener' = TRUE
                  /\ edge' = "pending"
                  /\ pc' = "waitEdge"
                  /\ UNCHANGED << err, rpcLo >>
     \/ Throw("RpcError") /\ UNCHANGED << edgeVars, rpcLo, hist >>
  /\ UNCHANGED << initResult, ledgerSlot, walletVars, executeCalled, engineVars,
                  bmVars, sendVars, signFailed, verifyVars, pollVars >>

\* A timeout callback that resolves the wait instead of rejecting it.
TimeoutCallback_Resolves == "resolved"

\* What the timeout callback of waitForSlotEdge does to the promise: reject.
TimeoutCallback == "rejected"

\* The 10 second timer of waitForSlotEdge fires while the wait is pending.
\* slotChangeHandler stays subscribed.
EdgeTimeout ==
  /\ pc = "waitEdge"
  /\ edgeTimer
  /\ edgeTimer' = FALSE
  /\ hist' = [hist EXCEPT !.timedOut = TRUE,
                          !.blockhashCalls =
                             IF TimeoutCallback = "resolved" THEN @ + 1 ELSE @]
  /\ AwaitSlotEdge(TimeoutCallback, ledgerSlot)
  /\ UNCHANGED << initResult, ledgerSlot, walletVars, executeCalled, engineVars,
                  bmVars, startSlot, targetSlot, edgeListener, sendVars, signFailed,
                  verifyVars, pollVars >>

\* The main flow is suspended on I/O or on a timer (and not between two
\* pieces of synchronous code), so the event loop can run a callback.
AllSettled == \A i \in 1..prepared : outcome[i] \in {"ok", "rejected"}

Suspended ==
  /\ pc \notin {"afterInit", "exit1"}
  /\ ~(pc = "awaitSends" /\ AllSettled)
  /\ ~(pc = "verifyQueries" /\ Len(VerifyArgument(result)) = 0)

\* The ledger moves to its next slot and the slot-change notification is
\* delivered: the engine's and the block monitor's callbacks store the slot,
\* and slotChangeHandler of a pending waitForSlotEdge resolves the wait if
\* the slot has reached the target (clearing the timeout and removing
\* itself).
LedgerAdvance ==
  /\ Suspended
  /\ ledgerSlot < MaxSlot
  /\ ledgerSlot' = ledgerSlot + 1
  /\ currentSlot' = IF slotSubscription THEN ledgerSlot + 1 ELSE currentSlot
  /\ bmCurrentSlot' = IF bmSlotSubscription THEN ledgerSlot + 1 ELSE bmCurrentSlot
  /\ IF pc = "waitEdge" /\ edgeListener /\ EdgeReached(ledgerSlot + 1, targetSlot)
     THEN /\ edgeTimer' = FALSE
          /\ edgeListener' = FALSE
          /\ AwaitSlotEdge("resolved", ledgerSlot + 1)
          /\ hist' = [hist EXCEPT !.maxObserved = Max(@, ledgerSlot + 1),
                                  !.waitObserved = Max(@, ledgerSlot + 1),
                                  !.blockhashCalls = @ + 1]
     ELSE /\ hist' = [hist EXCEPT !.maxObserved =
                         IF slotSubscription \/ edgeListener
                         THEN Max(@, ledgerSlot + 1) ELSE @,
                                  !.waitObserved =
                         IF pc = "waitEdge" /\ edgeListener
                         THEN Max(@, ledgerSlot + 1) ELSE @]
          /\ UNCHANGED << pc, err, rpcLo, edgeTimer, edgeListener, edge >>
  /\ UNCHANGED << initResult, walletVars, executeCalled, slotSubscription,
                  connectionPool, bmSlotSubscription, startSlot, targetSlot, sendVars,
                  signFailed, verifyVars, pollVars >>

\* serializedTxs.slice(i, i + batchSize): the (1-based) transactions of the
\* batch that starts at loop index i.
Batch(i, n) == {k \in 1..n : i < k /\ k <= i + BatchSize}

\* The loop stepping by one instead of by the batch size.
NextBatch_ByOne(i) == i + 1

\* i += batchSize
NextBatch(i) == i + BatchSize

\* The connection chosen with the index inside the batch.
PoolMember_BatchIndex(globalIndex, pool) ==
  pool[((globalIndex % BatchSize) % Len(pool)) + 1]

\* this.connectionPool[globalIndex % this.connectionPool.length], globalIndex
\* counting the transactions from 0.
PoolMember(globalIndex, pool) == pool[(globalIndex % Len(pool)) + 1]

\* One round of the dispatch loop: sendRawTransaction is called for every
\* transaction of the batch, on its connection of the pool; if more remain
\* the loop awaits its 1 ms timer, else executeSimultaneously awaits
\* Promise.all of the sends.
DispatchBatch(i) ==
  /\ hist' = [hist EXCEPT !.sentVia =
                 [k \in Wallets |-> IF k \in Batch(i, prepared)
                                    THEN PoolMember(k - 1, connectionPool)
                                    ELSE @[k]]]
  /\ outcome' = [k \in Wallets |-> IF k \in Batch(i, prepared) THEN "pending"
                                   ELSE outcome[k]]
  /\ sendCount' = [k \in Wallets |-> IF k \in Batch(i, prepared) THEN sendCount[k] + 1
                                     ELSE sendCount[k]]
  /\ IF i + BatchSize < prepared
     THEN pc' = "batchDelay" /\ batchI' = i
     ELSE pc' = "awaitSends" /\ batchI' = NextBatch(i)

\* getLatestBlockhash is answered (or fails).  Every transaction gets the
\* blockhash and is re-signed inside one Promise.all, which rejects if any
\* signing throws; the transactions are serialized and the first batch is
\* sent.
BlockhashResponse ==
  /\ pc = "blockhash"
  /\ \/ \E v \in RpcValues : \E bad \in SignOutcomes(prepared) :
          /\ blockhash' = v
          /\ signFailed' = bad
          /\ transactions' = Finalize(transactions, getReadyWallets(isReady), v, bad)
          /\ IF bad # {}
             THEN /\ Throw("SigningError")
                  /\ UNCHANGED << outcome, sendCount, batchI, dispatchSlot, hist >>
             ELSE /\ DispatchBatch(0)
                  /\ dispatchSlot' = ledgerSlot
                  /\ UNCHANGED err
     \/ /\ Throw("RpcError")
        /\ UNCHANGED << blockhash, signFailed, transactions, outcome, sendCount,
                        batchI, dispatchSlot, hist, pollVars >>
  /\ UNCHANGED << initResult, ledgerSlot, rpcLo, ready, isReady, prepared,
                  executeCalled, engineVars, bmVars, edgeVars, result, verifyVars, pollVars >>

\* A loop that awaits the sends of the batch before it goes on.
BatchDelaySettled_AwaitsBatch ==
  \A k \in Batch(batchI, prepared) : outcome[k] \in {"ok", "rejected"}

\* What the loop awaits between two batches: new Promise(resolve =>
\* setTimeout(resolve, 1)), which settles whatever the sends do.
BatchDelaySettled == TRUE

\* The 1 ms timer between two batches fires: i += batchSize and the next
\* batch is sent.
BatchTimer ==
  /\ pc = "batchDelay"
  /\ BatchDelaySettled
  /\ DispatchBatch(NextBatch(batchI))
  /\ UNCHANGED << initResult, err, ledgerSlot, rpcLo, walletVars, executeCalled,
                  engineVars, bmVars, edgeVars, blockhash, dispatchSlot, result,
                  signFailed, verifyVars, pollVars >>

\* The endpoint answers one send: .then records a success, .catch records a
\* failure; either way the send's promise is fulfilled with an outcome.
SendSettles(accepted) == IF accepted THEN "ok" ELSE "rejected"

SendResponse ==
  /\ pc \in {"batchDelay", "awaitSends"}
  /\ \E i \in 1..prepared : \E accepted \in BOOLEAN :
       /\ outcome[i] = "pending"
       /\ outcome' = [outcome EXCEPT ![i] = SendSettles(accepted)]
  /\ UNCHANGED << pc, initResult, err, ledgerSlot, rpcLo, walletVars, executeCalled,
                  engineVars, bmVars, edgeVars, blockhash, sendCount, batchI,
                  dispatchSlot, result, signFailed, verifyVars, hist, pollVars >>

\* A verifyBlockInclusion that asks for the current slot at once.
VerifyEntry_NoSettleWait == "verifyGetSlot"

\* Where verifyBlockInclusion first suspends: await this.sleep(5000).
VerifyEntry == "verifySleep"

\* Promise.all(executionPromises) is fulfilled: the ExecutionResult is built
\* and returned, execute() calls verifyBlockInclusion with its
\* transactionHashes, which starts its 5 second sleep.
SendsSettled ==
  /\ pc = "awaitSends"
  /\ AllSettled
  /\ result' = ExecutionResult(prepared, outcome, currentSlot)
  /\ hist' = [hist EXCEPT !.verifyCalls = @ + 1]
  /\ pc' = VerifyEntry
  /\ UNCHANGED << initResult, err, ledgerSlot, rpcLo, walletVars, executeCalled,
                  engineVars, bmVars, edgeVars, blockhash, outcome, sendCount, batchI,
                  dispatchSlot, signFailed, verifyVars, pollVars >>

\* verifyBlockInclusion: the sleep ends and getSlot is requested.
VerifySleepEnds ==
  /\ pc = "verifySleep"
  /\ rpcLo' = ledgerSlot
  /\ hist' = [hist EXCEPT !.sleepDone = TRUE]
  /\ pc' = "verifyGetSlot"
  /\ UNCHANGED << initResult, err, ledgerSlot, walletVars, executeCalled, engineVars,
                  bmVars, edgeVars, sendVars, signFailed, verifyVars, pollVars >>

\* verifyBlockInclusion: getSlot is answered and one getTransaction per hash
\* is requested; a failed getSlot is rethrown.
VerifyGetSlotResponse ==
  /\ pc = "verifyGetSlot"
  /\ \/ \E v \in RpcValues :
          /\ vCurrentSlot' = v
          /\ hist' = [hist EXCEPT !.queryCount =
                         [k \in 1..Len(VerifyArgument(result)) |-> 1]]
          /\ pc' = "verifyQueries"
          /\ UNCHANGED err
     \/ Throw("RpcError") /\ UNCHANGED << vCurrentSlot, hist >>
  /\ UNCHANGED << initResult, ledgerSlot, rpcLo, walletVars, executeCalled,
                  engineVars, bmVars, edgeVars, sendVars, signFailed, verification,
                  report, pollVars >>

\* What getTransaction may answer for a transaction sent in this run: it
\* landed in a slot between the first send and now, or it is not found, or
\* the query throws.
QueryOutcomes == {QInfo(s) : s \in dispatchSlot..ledgerSlot} \cup {QNull, QThrow}

\* The slot the ledger has already shown the k-th hash in, if any.
Landed(k) == IF k \in DOMAIN hist.landed THEN hist.landed[k] ELSE NoSlot

\* An answer the ledger can give for the k-th hash: a transaction it has
\* shown in a slot is still there, in that slot, unless the query throws.
Answerable(k, a) ==
  \/ Landed(k) = NoSlot
  \/ a = QThrow
  \/ a = QInfo(Landed(k))

\* verifyBlockInclusion: every getTransaction has settled; the result is
\* computed and returned, and execute() prints the report and returns.
VerifyQueriesSettle ==
  /\ pc = "verifyQueries"
  /\ \E q \in [1..Len(VerifyArgument(result)) -> QueryOutcomes] :
       /\ \A k \in DOMAIN q : Answerable(k, q[k])
       /\ verification' = VerificationResult(VerifyArgument(result), q, vCurrentSlot)
       /\ report' = generateReport(verification')
       /\ hist' = [hist EXCEPT !.queries = @ + Len(VerifyArgument(result)),
                               !.answers = q,
                               !.landed = [k \in DOMAIN q |->
                                             IF q[k].kind = "info" THEN q[k].slot
                                             ELSE Landed(k)]]
  /\ pc' = "done"
  /\ UNCHANGED << initResult, err, ledgerSlot, rpcLo, walletVars, executeCalled,
                  engineVars, bmVars, edgeVars, sendVars, signFailed, vCurrentSlot, pollVars >>

Next ==
  \/ ValidateConfig
  \/ WalletInitialize
  \/ FundWallets
  \/ EngineInitialize
  \/ StartSlotMonitoringResponse
  \/ BlockMonitorInitialize
  \/ MainCallsExecute
  \/ CalculateOptimalTimingResponse
  \/ StartSlotResponse
  \/ EdgeTimeout
  \/ LedgerAdvance
  \/ BlockhashResponse
  \/ BatchTimer
  \/ SendResponse
  \/ SendsSettled
  \/ VerifySleepEnds
  \/ VerifyGetSlotResponse
  \/ VerifyQueriesSettle

Spec == Init /\ [][Next]_vars

\* The same run with the event loop's guarantee that an armed timer fires:
\* the 1 ms timer of the dispatch loop and the 10 second timer of
\* waitForSlotEdge (while it is not cleared).  Nothing is assumed of the
\* endpoint, which may never answer a send, nor of the ledger, which may
\* never show a new slot.
SpecTimers ==
  Init /\ [][Next]_vars /\ WF_vars(BatchTimer) /\ WF_vars(EdgeTimeout)

\* ------------------------------------------- verifyBlockInclusion alone
\* The state in which execute() has just called verifyBlockInclusion, for a
\* cycle of n transactions sent at slot FirstSendSlot whose sends settled as
\* out, the ledger being two slots further.
InitVerify ==
  \E n \in 1..MaxWallets : \E out \in [1..n -> {"ok", "rejected"}] :
    /\ pc = "verifySleep"
    /\ initResult = "true"
    /\ err = "none"
    /\ ledgerSlot = FirstSendSlot + 2
    /\ rpcLo = FirstSendSlot
    /\ ready = n
    /\ isReady = 1..n
    /\ prepared = n
    /\ transactions = Finalize(PreSign(prepareTransactions(getReadyWallets(1..n)),
                                        getReadyWallets(1..n), {}),
                                getReadyWallets(1..n), FirstSendSlot, {})
    /\ executeCalled = TRUE
    /\ currentSlot = FirstSendSlot + 2
    /\ slotSubscription = TRUE
    /\ connectionPool = createConnectionPool
    /\ bmCurrentSlot = FirstSendSlot + 2
    /\ bmSlotSubscription = TRUE
    /\ startSlot = FirstSendSlot - TargetOffset
    /\ targetSlot = FirstSendSlot
    /\ edgeTimer = FALSE
    /\ edgeListener = FALSE
    /\ edge = "resolved"
    /\ pollTarget = NoSlot
    /\ pollTimer = "none"
    /\ pollTimeout = FALSE
    /\ poll = "none"
    /\ blockhash = FirstSendSlot
    /\ outcome = [i \in Wallets |-> IF i <= n THEN out[i] ELSE "none"]
    /\ sendCount = [i \in Wallets |-> IF i <= n THEN 1 ELSE 0]
    /\ batchI = ((n + BatchSize - 1) \div BatchSize) * BatchSize
    /\ dispatchSlot = FirstSendSlot
    /\ signFailed = {}
    /\ result = ExecutionResult(n, out, FirstSendSlot + 2)
    /\ vCurrentSlot = NoSlot
    /\ verification = NoVerification
    /\ report = NoReport
    /\ hist = [InitHist EXCEPT !.maxObserved = FirstSendSlot + 2,
                                !.waitObserved = FirstSendSlot, !.edgeCalls = 1,
                                !.blockhashCalls = 1, !.verifyCalls = 1]

NextVerify ==
  \/ VerifySleepEnds
  \/ VerifyGetSlotResponse
  \/ VerifyQueriesSettle

SpecVerify == InitVerify /\ [][NextVerify]_vars

\* ------------------------------------------- waitForSlot, waitForBlocks
\* A caller holding the engine and the block monitor after initialize(),
\* their listeners subscribed and their cached slots somewhere behind the
\* ledger.
InitPoll ==
  \E l \in 0..MaxSlot : \E c \in 0..l : \E b \in 0..l :
    /\ pc = "pollIdle"
    /\ initResult = "true"
    /\ err = "none"
    /\ ledgerSlot = l
    /\ rpcLo = l
    /\ ready = 0
    /\ isReady = {}
    /\ prepared = 0
    /\ transactions = << >>
    /\ executeCalled = FALSE
    /\ currentSlot = c
    /\ slotSubscription = TRUE
    /\ connectionPool = createConnectionPool
    /\ bmCurrentSlot = b
    /\ bmSlotSubscription = TRUE
    /\ startSlot = NoSlot
    /\ targetSlot = NoSlot
    /\ edgeTimer = FALSE
    /\ edgeListener = FALSE
    /\ edge = "none"
    /\ pollTarget = NoSlot
    /\ pollTimer = "none"
    /\ pollTimeout = FALSE
    /\ poll = "none"
    /\ blockhash = NoSlot
    /\ outcome = [i \in Wallets |-> "none"]
    /\ sendCount = [i \in Wallets |-> 0]
    /\ batchI = 0
    /\ dispatchSlot = NoSlot
    /\ signFailed = {}
    /\ result = NoResult
    /\ vCurrentSlot = NoSlot
    /\ verification = NoVerification
    /\ report = NoReport
    /\ hist = [InitHist EXCEPT !.maxObserved = Max(c, b)]

\* The slot checkSlot compares with the target: this.currentSlot of the
\* object the wait belongs to.
PolledSlot(wait) == IF wait = "waitForSlot" THEN currentSlot ELSE bmCurrentSlot

\* The else branch of checkSlot: setTimeout(checkSlot, ...), whatever has
\* become of the promise.
Reschedule(wait, settled) == wait

\* checkSlot(): if the slot has reached the target the timeout is cleared
\* and resolve() is called (without effect on a promise already rejected);
\* otherwise checkSlot is scheduled again.
checkSlot(wait, settled) ==
  IF PolledSlot(wait) >= pollTarget
  THEN /\ pollTimeout' = FALSE
       /\ pollTimer' = "none"
       /\ poll' = IF settled = "pending" THEN "resolved" ELSE settled
       /\ pc' = IF settled = "pending" THEN "pollReturned" ELSE pc
       /\ UNCHANGED hist
  ELSE /\ pollTimer' = Reschedule(wait, settled)
       /\ hist' = [hist EXCEPT !.rescheduled =
                      IF settled = "rejected" /\ Reschedule(wait, settled) # "none"
                         /\ @ < MaxPolls
                      THEN @ + 1 ELSE @]
       /\ UNCHANGED << pollTimeout, poll, pc >>

\* The executor of both waits: the timeout is armed and checkSlot() is
\* called once, synchronously.  After it the promise is resolved or pending.
StartPolling(wait, target) ==
  /\ pollTarget' = target
  /\ IF PolledSlot(wait) >= target
     THEN /\ pollTimeout' = FALSE
          /\ pollTimer' = "none"
          /\ poll' = "resolved"
          /\ pc' = "pollReturned"
     ELSE /\ pollTimeout' = TRUE
          /\ pollTimer' = wait
          /\ poll' = "pending"
          /\ pc' = "polling"
  /\ UNCHANGED << initResult, err, ledgerSlot, rpcLo, walletVars, executeCalled,
                  engineVars, bmVars, edgeVars, sendVars, signFailed, verifyVars,
                  hist >>

\* synchronizationEngine.waitForSlot(targetSlot)
WaitForSlotCall ==
  /\ pc = "pollIdle"
  /\ \E t \in 0..(MaxSlot + 1) : StartPolling("waitForSlot", t)

\* blockMonitor.waitForBlocks(blockCount): targetSlot = this.currentSlot +
\* blockCount.
WaitForBlocksCall ==
  /\ pc = "pollIdle"
  /\ \E n \in 0..MaxBlocks : StartPolling("waitForBlocks", bmCurrentSlot + n)

\* A scheduled checkSlot timer fires.
PollTimerFires ==
  /\ pollTimer # "none"
  /\ checkSlot(pollTimer, poll)
  /\ UNCHANGED << initResult, err, ledgerSlot, rpcLo, walletVars, executeCalled,
                  engineVars, bmVars, edgeVars, sendVars, signFailed, verifyVars,
                  pollTarget >>

\* The timeout timer of the wait fires: reject(new Error('Timeout ...')).
\* The callback does nothing else.
PollTimeout ==
  /\ pollTimeout
  /\ poll = "pending"
  /\ pollTimeout' = FALSE
  /\ poll' = "rejected"
  /\ pc' = "pollThrew"
  /\ UNCHANGED << initResult, err, ledgerSlot, rpcLo, walletVars, executeCalled,
                  engineVars, bmVars, edgeVars, sendVars, signFailed, verifyVars,
                  pollTarget, pollTimer, hist >>

NextPoll ==
  \/ WaitForSlotCall
  \/ WaitForBlocksCall
  \/ PollTimerFires
  \/ PollTimeout
  \/ LedgerAdvance

SpecPoll == InitPoll /\ [][NextPoll]_vars

\* ------------------------------------------------- the wall clock
\* calculateOptimalTiming has returned executionTime = Date.now() + 400 and
\* execute() has passed it to executeSimultaneously; some time later the
\* wall clock reaches it.  No code reads the clock against executionTime, so
\* this moment is not ordered with any step of the run.
ExecutionTimeReached ==
  /\ pc \in {"startSlot", "waitEdge", "blockhash", "batchDelay", "awaitSends",
              "verifySleep", "verifyGetSlot", "verifyQueries", "done"}
  /\ ~hist.executionTimePassed
  /\ hist' = [hist EXCEPT !.executionTimePassed = TRUE]
  /\ UNCHANGED << pc, initResult, err, ledgerSlot, rpcLo, walletVars, executeCalled,
                  engineVars, bmVars, edgeVars, sendVars, signFailed, verifyVars, pollVars >>

NextClock ==
  \/ ExecutionTimeReached
  \/ Next

SpecClock == Init /\ [][NextClock]_vars

\* --------------------------------------- verifyBlockInclusion called again
\* A caller holding the report of verifyBlockInclusion calls it again with
\* the same hashes, nothing having been dispatched in between.
VerifyAgain ==
  /\ pc = "done"
  /\ verification.valid
  /\ hist.verifyCalls < MaxVerifyCalls
  /\ hist' = [hist EXCEPT !.verifyCalls = @ + 1, !.sleepDone = FALSE,
                          !.queryCount = << >>, !.answers = << >>,
                          !.firstConfirmed =
                             {k \in 1..Len(verification.transactionHashes) :
                                verification.transactionHashes[k].confirmed}]
  /\ pc' = VerifyEntry
  /\ UNCHANGED << initResult, err, ledgerSlot, rpcLo, walletVars, executeCalled,
                  engineVars, bmVars, edgeVars, sendVars, signFailed, verifyVars, pollVars >>

NextVerifyTwice ==
  \/ VerifyAgain
  \/ VerifySleepEnds
  \/ VerifyGetSlotResponse
  \/ VerifyQueriesSettle

SpecVerifyTwice == InitVerify /\ [][NextVerifyTwice]_vars

\* ------------------------------------------- the verdict as a function
\* verifyBlockInclusion(hashes) of a block monitor, called with any list of
\* up to MaxHashes hashes and awaiting its getTransaction queries, for any
\* current slot read by getSlot and landed slots anywhere in 0..MaxSlot.
InitVerdict ==
  \E n \in 1..MaxHashes : \E cur \in 0..MaxSlot :
    /\ pc = "verifyQueries"
    /\ initResult = "true"
    /\ err = "none"
    /\ ledgerSlot = MaxSlot
    /\ rpcLo = 0
    /\ ready = 0
    /\ isReady = {}
    /\ prepared = 0
    /\ transactions = << >>
    /\ executeCalled = FALSE
    /\ currentSlot = MaxSlot
    /\ slotSubscription = TRUE
    /\ connectionPool = createConnectionPool
    /\ bmCurrentSlot = MaxSlot
    /\ bmSlotSubscription = TRUE
    /\ startSlot = NoSlot
    /\ targetSlot = NoSlot
    /\ edgeTimer = FALSE
    /\ edgeListener = FALSE
    /\ edge = "none"
    /\ pollTarget = NoSlot
    /\ pollTimer = "none"
    /\ pollTimeout = FALSE
    /\ poll = "none"
    /\ blockhash = NoSlot
    /\ outcome = [i \in Wallets |-> "none"]
    /\ sendCount = [i \in Wallets |-> 0]
    /\ batchI = 0
    /\ dispatchSlot = 0
    /\ signFailed = {}
    /\ result = [NoResult EXCEPT !.valid = TRUE, !.success = TRUE,
                                 !.transactionHashes = [k \in 1..n |-> k]]
    /\ vCurrentSlot = cur
    /\ verification = NoVerification
    /\ report = NoReport
    /\ hist = [InitHist EXCEPT !.maxObserved = MaxSlot, !.verifyCalls = 1,
                                !.sleepDone = TRUE,
                                !.queryCount = [k \in 1..n |-> 1]]

NextVerdict == VerifyQueriesSettle

SpecVerdict == InitVerdict /\ [][NextVerdict]_vars

\* ------------------------------------------------------------ cleanup()
\* A cleanup that leaves the stored subscription id in place.
SubscriptionAfterCleanup_Kept == TRUE

\* this.slotSubscription = null after the listener was removed.
SubscriptionAfterCleanup == FALSE

\* A caller holding the engine and the block monitor after initialize(),
\* which either subscribed both listeners, or only the engine's (the block
\* monitor's getSlot failed), or none.
InitCleanup ==
  \E subs \in {<< TRUE, TRUE >>, << TRUE, FALSE >>, << FALSE, FALSE >>} :
    /\ pc = "cleanupIdle"
    /\ initResult = IF subs[2] THEN "true" ELSE "false"
    /\ err = "none"
    /\ ledgerSlot = 0
    /\ rpcLo = 0
    /\ ready = 0
    /\ isReady = {}
    /\ prepared = 0
    /\ transactions = << >>
    /\ executeCalled = FALSE
    /\ currentSlot = 0
    /\ slotSubscription = subs[1]
    /\ connectionPool = IF subs[1] THEN createConnectionPool ELSE << >>
    /\ bmCurrentSlot = 0
    /\ bmSlotSubscription = subs[2]
    /\ startSlot = NoSlot
    /\ targetSlot = NoSlot
    /\ edgeTimer = FALSE
    /\ edgeListener = FALSE
    /\ edge = "none"
    /\ pollTarget = NoSlot
    /\ pollTimer = "none"
    /\ pollTimeout = FALSE
    /\ poll = "none"
    /\ blockhash = NoSlot
    /\ outcome = [i \in Wallets |-> "none"]
    /\ sendCount = [i \in Wallets |-> 0]
    /\ batchI = 0
    /\ dispatchSlot = NoSlot
    /\ signFailed = {}
    /\ result = NoResult
    /\ vCurrentSlot = NoSlot
    /\ verification = NoVerification
    /\ report = NoReport
    /\ hist = InitHist

\* SynchronizationEngine.cleanup() is called: with a subscription it requests
\* removeSlotChangeListener and awaits it; without one it logs and returns.
EngineCleanup ==
  /\ pc = "cleanupIdle"
  /\ hist.cleanupCalls < MaxCleanupCalls
  /\ hist' = [hist EXCEPT !.cleanupCalls = @ + 1]
  /\ pc' = IF slotSubscription THEN "engineRemoving" ELSE "cleanupIdle"
  /\ UNCHANGED << initResult, err, ledgerSlot, rpcLo, walletVars, executeCalled,
                  engineVars, bmVars, edgeVars, sendVars, signFailed, verifyVars, pollVars >>

\* removeSlotChangeListener settles: fulfilled, the listener is gone and
\* slotSubscription is set to null; rejected, the catch logs the error.
\* Either way cleanup() returns.
EngineCleanupResponse ==
  /\ pc = "engineRemoving"
  /\ \/ /\ slotSubscription' = SubscriptionAfterCleanup
        /\ hist' = [hist EXCEPT !.engineRemoved = @ + 1]
     \/ UNCHANGED << slotSubscription, hist >>
  /\ pc' = "cleanupIdle"
  /\ UNCHANGED << initResult, err, ledgerSlot, rpcLo, walletVars, executeCalled,
                  currentSlot, connectionPool, bmVars, edgeVars, sendVars, signFailed,
                  verifyVars, pollVars >>

\* BlockMonitor.cleanup() is called.
BlockMonitorCleanup ==
  /\ pc = "cleanupIdle"
  /\ hist.cleanupCalls < MaxCleanupCalls
  /\ hist' = [hist EXCEPT !.cleanupCalls = @ + 1]
  /\ pc' = IF bmSlotSubscription THEN "bmRemoving" ELSE "cleanupIdle"
  /\ UNCHANGED << initResult, err, ledgerSlot, rpcLo, walletVars, executeCalled,
                  engineVars, bmVars, edgeVars, sendVars, signFailed, verifyVars, pollVars >>

\* The block monitor's removeSlotChangeListener settles.
BlockMonitorCleanupResponse ==
  /\ pc = "bmRemoving"
  /\ \/ /\ bmSlotSubscription' = SubscriptionAfterCleanup
        /\ hist' = [hist EXCEPT !.bmRemoved = @ + 1]
     \/ UNCHANGED << bmSlotSubscription, hist >>
  /\ pc' = "cleanupIdle"
  /\ UNCHANGED << initResult, err, ledgerSlot, rpcLo, walletVars, executeCalled,
                  engineVars, bmCurrentSlot, edgeVars, sendVars, signFailed,
                  verifyVars, pollVars >>

NextCleanup ==
  \/ EngineCleanup
  \/ EngineCleanupResponse
  \/ BlockMonitorCleanup
  \/ BlockMonitorCleanupResponse
  \/ LedgerAdvance

SpecCleanup == InitCleanup /\ [][NextCleanup]_vars

\* ------------------------------------------------------------- claims
\* The transactions of the cycle whose send the endpoint accepted.
Accepted == {i \in 1..prepared : outcome[i] = "ok"}

\* The records of the verification report.
Records == verification.transactionHashes

\* The distinct landed slots among the confirmed records.
LandedSlots == {Records[k].slot : k \in {j \in 1..Len(Records) : Records[j].confirmed}}

\* The number of confirmed records.
ConfirmedCount == Cardinality({k \in 1..Len(Records) : Records[k].confirmed})

\* A send has been issued in this run.
SendIssued == \E i \in Wallets : sendCount[i] > 0

\* C1 as stated: the verification report of a cycle that dispatched N
\* transactions holds exactly N records, also when sends were rejected.
C1_Original ==
  verification.valid => Len(Records) = prepared

\* C1 amended: the verification report holds exactly one record per
\* transaction whose send was accepted, and none for a rejected send.
C1_OneRecordPerAcceptedSend ==
  verification.valid =>
    /\ Len(Records) = Cardinality(Accepted)
    /\ \A i \in 1..prepared :
         Cardinality({k \in 1..Len(Records) : Records[k].wallet = i})
           = IF i \in Accepted THEN 1 ELSE 0

C1_Witness ==
  /\ verification.valid
  /\ prepared = 3
  /\ Cardinality(Accepted) = 2
  /\ Len(Records) = 2

C3_Claim ==
  verification.valid =>
    /\ ~verification.successRate.nan
    /\ 0 <= verification.successRate.num
    /\ verification.successRate.num <= 100 * verification.successRate.den
    /\ verification.successRate.num * prepared
         = ConfirmedCount * 100 * verification.successRate.den

\* C4: the target slot is at least two slots after the start slot, and
\* neither the blockhash is requested nor a transaction sent before the
\* engine has observed a slot >= startSlot + 2.
C4_Claim ==
  /\ targetSlot # NoSlot => targetSlot >= startSlot + 2
  /\ (hist.blockhashCalls > 0 \/ SendIssued) => hist.maxObserved >= startSlot + 2

\* C5: once the boundary wait has timed out the cycle is over: execute
\* rejected with the timeout error, no blockhash was requested, nothing was
\* sent, nothing was verified or reported, and the wait was entered once.
C5_TimeoutAbortsCycle ==
  hist.timedOut =>
    /\ pc = "exit1"
    /\ err = "TimeoutError"
    /\ edge = "rejected"
    /\ hist.blockhashCalls = 0
    /\ blockhash = NoSlot
    /\ ~SendIssued
    /\ \A i \in Wallets : outcome[i] = "none"
    /\ ~result.valid
    /\ hist.verifyCalls = 0
    /\ ~verification.valid
    /\ ~report.printed
    /\ hist.edgeCalls = 1

C5_Witness ==
  /\ hist.timedOut
  /\ pc = "exit1"
  /\ prepared > 0
  /\ currentSlot < targetSlot

\* C6: when initialize() has failed, execute() is not called and no
\* transaction is prepared.
C6_Claim ==
  initResult = "false" => (~executeCalled /\ prepared = 0)

\* C7: a signing failure of one wallet's transaction does not make
\* executeSimultaneously reject.
C7_Claim ==
  signFailed # {} => err = "none"

\* C8: every transaction of a cycle that reaches dispatch is submitted
\* exactly once whatever sends are rejected, nothing stops the cycle between
\* the first send and the result, and the result holds one outcome per
\* transaction: the accepted ones as hashes, the others as failed wallets.
C8_EachSentExactlyOnce ==
  /\ \A i \in Wallets : sendCount[i] <= (IF i <= prepared THEN 1 ELSE 0)
  /\ (SendIssued /\ pc # "batchDelay") => \A i \in 1..prepared : sendCount[i] = 1
  /\ (SendIssued /\ ~result.valid) => pc \in {"batchDelay", "awaitSends"}
  /\ result.valid =>
       /\ Len(result.transactionHashes) + Len(result.failedWallets) = prepared
       /\ {result.transactionHashes[k] : k \in 1..Len(result.transactionHashes)}
            = Accepted
       /\ {result.failedWallets[k] : k \in 1..Len(result.failedWallets)}
            = (1..prepared) \ Accepted

C8_Witness ==
  /\ result.valid
  /\ prepared = 3
  /\ outcome[1] = "rejected"
  /\ outcome[2] = "ok"
  /\ outcome[3] = "rejected"
  /\ \A i \in 1..3 : sendCount[i] = 1

\* C9: a run that has issued a send does not end without generateReport
\* having been called.
C9_Claim ==
  (pc \in {"done", "exit1"} /\ SendIssued) => report.printed

\* C10: every write of the engine's cached current slot stores a value
\* that is at least the value it replaces.
C10_Claim == [][currentSlot' >= currentSlot]_vars

\* C11: waitForSlotEdge(T) resolves only if the engine has observed a slot
\* >= T (in its cached current slot when called, or in a notification during
\* the wait); while it is pending every observed slot is < T; and it rejects
\* with the timeout error only if no slot >= T was observed before the timer
\* fired.
C11_ResolvesOnlyAtTarget ==
  /\ edge = "resolved" => (hist.waitObserved >= targetSlot /\ ~hist.timedOut)
  /\ edge = "pending" => hist.waitObserved < targetSlot
  /\ edge = "rejected" =>
       (hist.timedOut /\ hist.waitObserved < targetSlot /\ err = "TimeoutError")

C11_Witness ==
  /\ edge = "resolved"
  /\ pollTarget = NoSlot
  /\ pollTimer = "none"
  /\ pollTimeout = FALSE
  /\ poll = "none"
  /\ hist.waitObserved = targetSlot
  /\ startSlot < currentSlot
  /\ currentSlot = targetSlot
  /\ pc = "blockhash"


\* C12: in every cycle the blockhash is fetched once and only after the
\* boundary wait resolved, every transaction that is sent carries that
\* blockhash and a signature made over it, none carries a blockhash read
\* before the boundary, and verifyBlockInclusion starts only after every send
\* of the cycle was issued and has settled.
C12_CausalOrder ==
  /\ hist.blockhashCalls <= 1
  /\ hist.blockhashCalls > 0 => (edge = "resolved" /\ hist.maxObserved >= targetSlot)
  /\ blockhash # NoSlot => (hist.blockhashCalls = 1 /\ blockhash >= targetSlot)
  /\ \A i \in 1..prepared :
       sendCount[i] > 0 =>
         /\ blockhash # NoSlot
         /\ transactions[i].recentBlockhash = blockhash
         /\ transactions[i].signedBlockhash = blockhash
  /\ hist.verifyCalls > 0 =>
       \A i \in 1..prepared : sendCount[i] = 1 /\ outcome[i] \in {"ok", "rejected"}

C12_Witness ==
  /\ pc = "verifySleep"
  /\ prepared = 3
  /\ blockhash > startSlot
  /\ \A i \in 1..3 : sendCount[i] = 1 /\ transactions[i].signedBlockhash = blockhash

\* C13: the transactions of a cycle are one per ready wallet, in the order
\* of the ready wallets, none skipped or duplicated; whoever signs the
\* transaction at index i is its fee payer, and every transaction that is
\* sent is signed by its fee payer.
C13_SignersAreReadyWallets ==
  transactions # << >> =>
    /\ Len(transactions) = Cardinality(isReady)
    /\ Len(transactions) = prepared
    /\ {transactions[k].feePayer : k \in 1..Len(transactions)} = isReady
    /\ \A j, k \in 1..Len(transactions) :
         j < k => transactions[j].feePayer < transactions[k].feePayer
    /\ \A k \in 1..Len(transactions) :
         /\ transactions[k].signer \in {NoWallet, transactions[k].feePayer}
         /\ sendCount[k] > 0 => transactions[k].signer = transactions[k].feePayer

C13_Witness ==
  /\ pc = "awaitSends"
  /\ isReady = {1, 3}
  /\ transactions[2].signer = 3
  /\ sendCount[1] = 1
  /\ sendCount[2] = 1

\* C14: cleanup() of the engine and of the block monitor is idempotent: over
\* any number of sequential calls each slot listener is removed at most once,
\* after a removal slotSubscription stays null, no call throws, and a call
\* made when slotSubscription is null requests no removal and changes nothing.
C14_CleanupIdempotent ==
  /\ [](/\ hist.engineRemoved <= 1
        /\ hist.bmRemoved <= 1
        /\ hist.engineRemoved = 1 => ~slotSubscription
        /\ hist.bmRemoved = 1 => ~bmSlotSubscription
        /\ err = "none")
  /\ [][hist'.cleanupCalls # hist.cleanupCalls =>
          /\ pc' = "engineRemoving" => slotSubscription
          /\ pc' = "bmRemoving" => bmSlotSubscription
          /\ UNCHANGED << engineVars, bmVars, ledgerSlot, err >>]_vars

C14_Witness ==
  /\ pc = "cleanupIdle"
  /\ hist.cleanupCalls >= 4
  /\ hist.engineRemoved = 1
  /\ hist.bmRemoved = 1
  /\ ledgerSlot > currentSlot

\* C15: the cached current slot, of the engine and of the block monitor,
\* changes only in a step that delivers a slot-change notification.
C15_Claim ==
  [][(currentSlot' # currentSlot \/ bmCurrentSlot' # bmCurrentSlot)
       => ledgerSlot' # ledgerSlot]_vars

\* C16: all transactions of a cycle are fired in one burst: once the first
\* send has been issued, the dispatching flow is not suspended before the
\* last send is issued.
C16_Claim ==
  SendIssued => \A i \in 1..prepared : sendCount[i] > 0

\* C17: the dispatch loop, suspended between two batches, goes on to issue
\* every send of the cycle, whether or not any answer to an earlier send
\* arrives.
C17_AllSendsInitiated ==
  (pc = "batchDelay") ~> (\A i \in 1..prepared : sendCount[i] = 1)

C17_Witness ==
  /\ pc = "awaitSends"
  /\ prepared = 3
  /\ \A i \in 1..3 : sendCount[i] = 1 /\ outcome[i] = "pending"

\* C18: the boundary wait does not resolve in the step that detects a slot
\* >= target: it resolves only in a later step, the detection having
\* happened before.
C18_Claim ==
  [][(edge # "resolved" /\ edge' = "resolved")
       => (targetSlot' = targetSlot /\ hist.maxObserved >= targetSlot)]_vars

\* C19: the verdict is positive exactly when at least one transaction is
\* confirmed and the largest and smallest landed slots differ by at most 2;
\* whenever that holds there are at most 3 distinct landed slots, so the
\* count test changes nothing; with no confirmed transaction it is negative.
C19_VerdictIsSpreadTest ==
  verification.valid =>
    /\ verification.allInSameBlock <=>
         (ConfirmedCount >= 1 /\ SetMax(LandedSlots) - SetMin(LandedSlots) <= 2)
    /\ (ConfirmedCount >= 1 /\ SetMax(LandedSlots) - SetMin(LandedSlots) <= 2)
         => Cardinality(LandedSlots) <= 3
    /\ ConfirmedCount = 0 => ~verification.allInSameBlock

C19_Witness ==
  /\ verification.valid
  /\ Len(Records) = 4
  /\ ConfirmedCount = 4
  /\ Cardinality(LandedSlots) = 3
  /\ SetMax(LandedSlots) - SetMin(LandedSlots) = 2
  /\ verification.allInSameBlock

\* C20: the reported block height is the smallest landed slot of the
\* confirmed records when the verdict is positive, and the current slot read
\* at verification time otherwise, for all non-negative landed slots.
C20_Claim ==
  verification.valid =>
    verification.blockHeight =
      IF verification.allInSameBlock THEN SetMin(LandedSlots) ELSE vCurrentSlot

\* C21: in every verification report a record is confirmed iff its query
\* returned a transaction, its slot is non-null iff it is confirmed (and is
\* then the slot returned), and a query that throws gives an unconfirmed
\* record with a null slot for that transaction only: the other records are
\* what their own queries say and verifyBlockInclusion does not reject.
C21_RecordsFollowQueries ==
  /\ verification.valid =>
       /\ Len(Records) = Len(hist.answers)
       /\ \A k \in 1..Len(Records) :
            /\ Records[k].wallet = VerifyArgument(result)[k]
            /\ Records[k].confirmed <=> hist.answers[k].kind = "info"
            /\ Records[k].slot # NoSlot <=> Records[k].confirmed
            /\ Records[k].confirmed => Records[k].slot = hist.answers[k].slot
  /\ hist.answers # << >> => (pc = "done" /\ err = "none" /\ verification.valid)

C21_Witness ==
  /\ verification.valid
  /\ Len(Records) = 3
  /\ hist.answers[1].kind = "throw"
  /\ hist.answers[2].kind = "info"
  /\ hist.answers[3].kind = "null"
  /\ Records[2].confirmed
  /\ pc = "done"

\* C22: verifyBlockInclusion makes no confirmation query before its sleep
\* has ended, and makes exactly one query per hash, whether the transaction
\* is found or not.
C22_OneQueryAfterSettleWait ==
  /\ (hist.queryCount # << >> \/ pc = "verifyQueries") => hist.sleepDone
  /\ pc = "verifySleep" => (hist.queryCount = << >> /\ hist.queries = 0)
  /\ \A k \in DOMAIN hist.queryCount : hist.queryCount[k] = 1
  /\ verification.valid =>
       /\ Len(hist.queryCount) = Len(Records)
       /\ hist.queries = Len(Records)

C22_Witness ==
  /\ verification.valid
  /\ hist.sleepDone
  /\ Len(Records) = 2
  /\ ~Records[1].confirmed
  /\ hist.queryCount = << 1, 1 >>

\* C23: a second verifyBlockInclusion on the same hashes, with no dispatch in
\* between, reports as confirmed every transaction the first one reported
\* as confirmed.
C23_Claim ==
  (verification.valid /\ hist.verifyCalls = 2 /\ pc = "done") =>
    \A k \in hist.firstConfirmed : Records[k].confirmed

\* C24: once initialize has succeeded the pool holds exactly 3 connections
\* (a number between 2 and 5), every send of transaction i (counted from 0)
\* is made on pool member i mod 3, and the dispatch never adds, removes or
\* replaces a member of the pool.
C24_PoolInvariant ==
  /\ initResult = "true" => (Len(connectionPool) = 3 /\ Len(connectionPool) \in 2..5)
  /\ SendIssued => Len(connectionPool) = 3
  /\ \A i \in Wallets :
       sendCount[i] > 0 => hist.sentVia[i] = connectionPool[((i - 1) % 3) + 1]
  /\ \A i, j \in 1..Len(connectionPool) :
       connectionPool[i] = connectionPool[j] => i = j

C25_Claim ==
  edge \in {"resolved", "rejected"} => ~edgeListener

\* C26: the boundary wait returns only on a slot notification received
\* after the start slot S was read (one for a slot of at least S + 1), never
\* only because the cached current slot was already ahead.
C26_Claim ==
  [][(edge # "resolved" /\ edge' = "resolved") =>
       (ledgerSlot' = ledgerSlot + 1 /\ ledgerSlot' >= startSlot + 1)]_vars

\* C27: every call of waitForSlotEdge eventually settles, and settles once:
\* it resolves or rejects and then stays as it is, and once it has resolved
\* its timer is cancelled.
C27_WaitSettlesOnce ==
  /\ (hist.edgeCalls > 0) ~> (edge \in {"resolved", "rejected"})
  /\ [](hist.edgeCalls > 0 => edge \in {"pending", "resolved", "rejected"})
  /\ [][(edge \in {"resolved", "rejected"}) => (edge' = edge)]_vars
  /\ [](edge = "resolved" => ~edgeTimer)

C27_Witness ==
  /\ edge = "resolved"
  /\ pollTarget = NoSlot
  /\ pollTimer = "none"
  /\ pollTimeout = FALSE
  /\ poll = "none"
  /\ ~edgeTimer
  /\ ~edgeListener
  /\ hist.edgeCalls = 1
  /\ currentSlot = targetSlot
  /\ ledgerSlot = startSlot + 1

\* C28: a run whose initialize succeeded eventually removes both slot
\* subscriptions once the cycle has finished.
C28_Claim ==
  (initResult = "true" /\ pc = "done") ~> (~slotSubscription /\ ~bmSlotSubscription)

\* C29: no send is issued before the executionTime that
\* calculateOptimalTiming returned and executeSimultaneously was given.
C29_Claim ==
  SendIssued => hist.executionTimePassed

\* C30: after waitForSlot or waitForBlocks has rejected with its timeout,
\* the polling loop stops: no further checkSlot timer is scheduled.
C30_Claim ==
  poll = "rejected" => hist.rescheduled = 0

====
